---- MODULE Spec2Model ----
(***************************************************************************)
(* Model of the Flask movie backend: the lazily initialised Supabase       *)
(* client (app/services/supabase_client.py) and the /api/movies handlers   *)
(* (app/routes/movies.py), run by NThreads request threads                 *)
(* (run.py: app.run(..., threaded=True)).                                  *)
(*                                                                         *)
(* Text is modelled as a sequence of one-character strings, so that        *)
(* str.strip, str.lower and the substring test are computed.               *)
(* blp.abort(code, message=...) is modelled as raising an HTTP exception   *)
(* (an Exception subclass) carrying the status code and the message.       *)
(*                                                                         *)
(* Spec runs one worker thread over every request body and every remote    *)
(* answer; SpecThreads runs NThreads threads concurrently over one body     *)
(* and one answer per branch, since the threads share only the gateway      *)
(* (_client, _client_lock); FairSpecThreads adds the fairness of the        *)
(* threads' steps inside get_supabase.                                      *)
(***************************************************************************)
EXTENDS Integers, Sequences, FiniteSets, TLC

\* ---------------------------------------------------------------- bounds
\* number of request threads of the threaded server
NThreads == 2
\* how many times the remote client constructor may throw in one run
MaxCtorFailures == 1

Threads == 1..NThreads

VARIABLES
    hasUrl,      \* bool(os.getenv("SUPABASE_URL"))
    hasKey,      \* bool(os.getenv("SUPABASE_SERVICE_KEY"))
    client,      \* module global _client: 0 is None, n > 0 the n-th Client instance
    lock,        \* module global _client_lock: 0 is free, t the thread holding it
    created,     \* number of Client instances create_client has returned
    ctorFailed,  \* number of create_client calls that threw
    pc,          \* per thread: position in the handler / in get_supabase
    kind,        \* per thread: "none", "get" or "post" (the handler running)
    payload,     \* per thread: new_movie, the deserialised request body
    supabase,    \* per thread: the handler's local supabase (0: not obtained)
    gwErr,       \* per thread: RuntimeError in flight out of _create_client
    err_text,    \* per thread: the handler's local err_text (<<>>: unset, else <<text>>)
    sent,        \* per thread: payloads passed to insert(...).execute(), in order
    got,         \* per thread: what each select / insert call did (raised, data)
    stored,      \* per thread: records the remote service created for this request
    trace,       \* per thread: log records, network calls and aborts, in order
    resp         \* per thread: the HTTP response of the finished request

vars == <<hasUrl, hasKey, client, lock, created, ctorFailed, pc, kind, payload,
          supabase, gwErr, err_text, sent, got, stored, trace, resp>>

gwVars == <<hasUrl, hasKey, client, lock, created, ctorFailed>>

\* ------------------------------------------------------------------ text
Upper == <<"A","B","C","D","E","F","G","H","I","J","K","L","M",
           "N","O","P","Q","R","S","T","U","V","W","X","Y","Z">>
LowerOf == <<"a","b","c","d","e","f","g","h","i","j","k","l","m",
             "n","o","p","q","r","s","t","u","v","w","x","y","z">>

LowerChar(c) ==
    IF \E i \in 1..26 : Upper[i] = c
    THEN LowerOf[CHOOSE i \in 1..26 : Upper[i] = c]
    ELSE c

\* str.lower()
Lower(s) == [i \in 1..Len(s) |-> LowerChar(s[i])]

\* the test "sub in s"
Contains(sub, s) ==
    \E i \in 0..(Len(s) - Len(sub)) :
        \A j \in 1..Len(sub) : s[i + j] = sub[j]

Whitespace == {" ", "\t", "\n", "\r"}

RECURSIVE LStrip(_)
LStrip(s) ==
    IF s # <<>> /\ Head(s) \in Whitespace THEN LStrip(Tail(s)) ELSE s

RECURSIVE RStrip(_)
RStrip(s) ==
    IF s # <<>> /\ s[Len(s)] \in Whitespace
    THEN RStrip(SubSeq(s, 1, Len(s) - 1))
    ELSE s

\* str.strip()
Strip(s) == RStrip(LStrip(s))

\* ---------------------------------------------------------------- values
\* A JSON value is tagged with its Python type after deserialisation.
VStr(s) == [t |-> "str", v |-> s]
VInt(n) == [t |-> "int", v |-> n]
VNone(k) == IF k = "year" THEN [t |-> "none", v |-> 0] ELSE [t |-> "none", v |-> <<>>]

T_Dune == <<"D","u","n","e">>
T_DunePadded == <<" ","D","u","n","e"," ">>
T_Blank == <<" "," ">>
T_BlankTab == <<" ","\t">>
T_Url == <<"u">>

\* Request bodies, as decoded JSON objects (a function from keys to values).
RawPayloads ==
    { [title |-> VStr(T_Dune)],
      [title |-> VStr(T_Dune), photo_url |-> VStr(T_Url)],
      [title |-> VStr(T_DunePadded), year |-> VInt(2010), photo_url |-> VNone("photo_url")],
      [title |-> VStr(T_Blank)],
      [title |-> VStr(T_BlankTab), photo_url |-> VStr(T_Url)],
      [title |-> VStr(<<>>)],
      [year |-> VInt(2010)],
      [title |-> VStr(T_Dune), photo_url |-> VInt(7)] }

NoPayload == [none |-> TRUE]

\* MovieCreateSchema, applied by @blp.arguments before post() runs: unknown
\* keys are rejected, title is a required string of length >= 1, the other
\* fields are of their type or null.
MovieCreateSchema(p) ==
    /\ DOMAIN p \subseteq {"title", "year", "overview", "photo_url"}
    /\ "title" \in DOMAIN p
    /\ p.title.t = "str"
    /\ Len(p.title.v) >= 1
    /\ "year" \in DOMAIN p => p.year.t \in {"int", "none"}
    /\ "overview" \in DOMAIN p => p.overview.t \in {"str", "none"}
    /\ "photo_url" \in DOMAIN p => p.photo_url.t \in {"str", "none"}

\* mutant of TitleOf: the title is not stripped
TitleOfNoStrip(p) ==
    IF "title" \in DOMAIN p /\ p.title.t = "str" THEN p.title.v ELSE <<>>

\* (new_movie.get("title") or "").strip()
TitleOf(p) ==
    IF "title" \in DOMAIN p /\ p.title.t = "str" THEN Strip(p.title.v) ELSE <<>>

\* photo_url is not None and not isinstance(photo_url, str)
PhotoUrlNotText(p) ==
    "photo_url" \in DOMAIN p /\ p.photo_url.t \notin {"none", "str"}

\* {k: v for k, v in new_movie.items() if k != "photo_url"}
SafePayload(p) == [k \in DOMAIN p \ {"photo_url"} |-> p[k]]

\* ------------------------------------------------------- error messages
FallbackSubstrings ==
    { <<"c","o","l","u","m","n">>,
      <<"u","n","k","n","o","w","n">>,
      <<"i","n","v","a","l","i","d"," ","i","n","p","u","t">>,
      <<"d","o","e","s"," ","n","o","t"," ","e","x","i","s","t">>,
      <<"u","n","d","e","f","i","n","e","d">> }

\* mutant of FallbackMatch: err_text is not lower-cased
FallbackMatchCaseSensitive(text) == \E s \in FallbackSubstrings : Contains(s, text)

\* the five "... in err_text.lower()" tests of the retry condition
FallbackMatch(text) == \E s \in FallbackSubstrings : Contains(s, Lower(text))

\* mutant of ShouldRetry: the test "photo_url" in new_movie is missing
ShouldRetryWithoutKeyTest(p, text) == FallbackMatch(text)

\* mutant of ShouldRetry: every failure of the first attempt is retried
ShouldRetryOnAnyFailure(p, text) == "photo_url" \in DOMAIN p

\* "photo_url" in new_movie and (one of the substrings matches)
ShouldRetry(p, text) == "photo_url" \in DOMAIN p /\ FallbackMatch(text)

\* Messages the remote service may raise on insert.
\* "column photo_url does not exist", "Unknown field", "INVALID INPUT syntax",
\* "relation Does Not Exist", "Undefined", "timeout", "colum n unkown", ""
ErrorMessages ==
    { <<"c","o","l","u","m","n"," ","p","h","o","t","o","_","u","r","l"," ","d","o","e","s"," ","n","o","t"," ","e","x","i","s","t">>,
      <<"U","n","k","n","o","w","n"," ","f","i","e","l","d">>,
      <<"I","N","V","A","L","I","D"," ","I","N","P","U","T"," ","s","y","n","t","a","x">>,
      <<"r","e","l","a","t","i","o","n"," ","D","o","e","s"," ","N","o","t"," ","E","x","i","s","t">>,
      <<"U","n","d","e","f","i","n","e","d">>,
      <<"t","i","m","e","o","u","t">>,
      <<"c","o","l","u","m"," ","n"," ","u","n","k","o","w","n">>,
      <<>> }

\* str() of the exception blp.abort(500, ...) raises: "500 Internal Server
\* Error: " followed by the standard description of the status.
AbortText ==
    <<"5","0","0"," ","I","n","t","e","r","n","a","l"," ","S","e","r","v","e","r"," ","E","r","r","o","r",":"," ","T","h","e"," ","s","e","r","v","e","r"," ","e","n","c","o","u","n","t","e","r","e","d"," ","a","n"," ","i","n","t","e","r","n","a","l"," ","e","r","r","o","r"," ","a","n","d"," ","w","a","s"," ","u","n","a","b","l","e"," ","t","o"," ","c","o","m","p","l","e","t","e"," ","y","o","u","r"," ","r","e","q","u","e","s","t","."," ","E","i","t","h","e","r"," ","t","h","e"," ","s","e","r","v","e","r"," ","i","s"," ","o","v","e","r","l","o","a","d","e","d"," ","o","r"," ","t","h","e","r","e"," ","i","s"," ","a","n"," ","e","r","r","o","r"," ","i","n"," ","t","h","e"," ","a","p","p","l","i","c","a","t","i","o","n",".">>

MsgTitleRequired == "Field 'title' is required and cannot be empty."
MsgPhotoUrlText == "Field 'photo_url' must be a string if provided."
MsgNoData == "Insert failed: no data returned from Supabase"
MsgCreateFailed == "Failed to create movie"
MsgFetchFailed == "Failed to fetch movies"
MsgInitFailed == "Failed to initialize Supabase client"

\* mutant of ConfigMissing: the configuration is not tested
ConfigNeverMissing(u, k) == FALSE

\* if not url or not key
ConfigMissing(u, k) == ~u \/ ~k

\* the RuntimeError text of _create_client for the missing variables
MissingMessage(u, k) ==
    IF ~u /\ ~k THEN "Missing required Supabase configuration: SUPABASE_URL, SUPABASE_SERVICE_KEY"
    ELSE IF ~u THEN "Missing required Supabase configuration: SUPABASE_URL"
    ELSE "Missing required Supabase configuration: SUPABASE_SERVICE_KEY"

\* ----------------------------------------------------- trace and response
Log(lvl, ev) == [what |-> "log", lvl |-> lvl, ev |-> ev, code |-> 0]
Call(op) == [what |-> "call", lvl |-> "", ev |-> op, code |-> 0]
Abort(code, msg) == [what |-> "abort", lvl |-> "", ev |-> msg, code |-> code]

NoResp == [status |-> 0, message |-> "", data |-> <<>>]
Response(code, msg, data) == [status |-> code, message |-> msg, data |-> data]

Row(id, p) == [id |-> id, fields |-> p]

\* ------------------------------------------------------ remote service
\* What supabase.table("movies").insert(p).execute() can do: raise with a
\* message (nothing stored), or return a result whose data holds the stored
\* row, or a result with no rows (the row stored or not).
InsertOutcomes(p) ==
    { [raises |-> TRUE, msg |-> m, data |-> <<>>, made |-> 0] : m \in ErrorMessages }
    \cup { [raises |-> FALSE, msg |-> <<>>, data |-> <<Row(1, p)>>, made |-> 1] }
    \cup { [raises |-> FALSE, msg |-> <<>>, data |-> <<>>, made |-> n] : n \in {0, 1} }

\* What supabase.table("movies").select("*").execute() can do: raise, or
\* return a result whose data is None, empty, or rows.
SelectOutcomes ==
    { [raises |-> TRUE, present |-> FALSE, data |-> <<>>],
      [raises |-> FALSE, present |-> FALSE, data |-> <<>>],
      [raises |-> FALSE, present |-> TRUE, data |-> <<>>],
      [raises |-> FALSE, present |-> TRUE, data |-> <<Row(1, [title |-> VStr(T_Dune)])>>] }

\* ------------------------------------------------------------------ Init
Init ==
    /\ hasUrl \in BOOLEAN
    /\ hasKey \in BOOLEAN
    /\ client = 0
    /\ lock = 0
    /\ created = 0
    /\ ctorFailed = 0
    /\ pc = [t \in Threads |-> "idle"]
    /\ kind = [t \in Threads |-> "none"]
    /\ payload = [t \in Threads |-> NoPayload]
    /\ supabase = [t \in Threads |-> 0]
    /\ gwErr = [t \in Threads |-> ""]
    /\ err_text = [t \in Threads |-> <<>>]
    /\ sent = [t \in Threads |-> <<>>]
    /\ got = [t \in Threads |-> <<>>]
    /\ stored = [t \in Threads |-> 0]
    /\ trace = [t \in Threads |-> <<>>]
    /\ resp = [t \in Threads |-> NoResp]

reqVars == <<kind, payload, supabase, gwErr, err_text, sent, got, stored, trace, resp>>

Emit(t, evs) == trace' = [trace EXCEPT ![t] = @ \o evs]

\* blp.abort(code, message=msg) leaving the handler: the request ends
Respond(t, code, msg, data) ==
    /\ resp' = [resp EXCEPT ![t] = Response(code, msg, data)]
    /\ pc' = [pc EXCEPT ![t] = "done"]

\* ------------------------------------------------------- GET /api/movies
\* MoviesList.get up to the call of get_supabase
GetStart(t) ==
    /\ pc[t] = "idle"
    /\ kind' = [kind EXCEPT ![t] = "get"]
    /\ Emit(t, <<Log("info", "movies_get_start")>>)
    /\ pc' = [pc EXCEPT ![t] = "gw_check1"]
    /\ UNCHANGED <<gwVars, payload, supabase, gwErr, err_text, sent, got, stored, resp>>

\* mutant of NormalizeData: a None payload is not replaced by []
NormalizeDataKeepNone(o) == [present |-> o.present, rows |-> o.data]

\* data = getattr(res, "data", None); if data is None: data = []
\* (a Python value: present is FALSE for None)
NormalizeData(o) ==
    IF o.present THEN [present |-> TRUE, rows |-> o.data]
    ELSE [present |-> TRUE, rows |-> <<>>]

\* the remote call of select("*").execute() under outcome o
SelectCall(t, o) ==
    got' = [got EXCEPT ![t] = Append(@, [raised |-> o.raises, present |-> o.present,
                                         data |-> o.data])]

\* the select, its normalisation and the except branch of MoviesList.get
GetSelect(t, o) ==
    /\ pc[t] = "get_select"
    /\ SelectCall(t, o)
    \* len(None) raises TypeError inside the try block
    /\ IF o.raises \/ ~NormalizeData(o).present
        THEN /\ Emit(t, <<Call("select"),
                          Log("exception", "Failed to fetch movies from Supabase"),
                          Log("error", "movies_get_failure"),
                          Abort(500, MsgFetchFailed)>>)
             /\ Respond(t, 500, MsgFetchFailed, <<>>)
        ELSE /\ Emit(t, <<Call("select"), Log("info", "movies_get_success")>>)
             /\ Respond(t, 200, "", NormalizeData(o).rows)
    /\ UNCHANGED <<gwVars, kind, payload, supabase, gwErr, err_text, sent, stored>>

\* ------------------------------------------------------ POST /api/movies
\* @blp.arguments(MovieCreateSchema) rejects the body: 422, post() not entered
PostSchemaReject(t, p) ==
    /\ pc[t] = "idle"
    /\ ~MovieCreateSchema(p)
    /\ kind' = [kind EXCEPT ![t] = "rejected"]
    /\ Respond(t, 422, "Unprocessable Entity", <<>>)
    /\ UNCHANGED <<gwVars, payload, supabase, gwErr, err_text, sent, got, stored, trace>>

\* post() from its entry to the call of get_supabase: the two validations
PostStart(t, p) ==
    /\ pc[t] = "idle"
    /\ MovieCreateSchema(p)
    /\ payload' = [payload EXCEPT ![t] = p]
    /\ IF TitleOf(p) = <<>>
           THEN /\ Emit(t, <<Log("warning", "movies_post_validation_error"),
                             Abort(400, MsgTitleRequired)>>)
                /\ Respond(t, 400, MsgTitleRequired, <<>>)
           ELSE IF PhotoUrlNotText(p)
           THEN /\ Emit(t, <<Log("warning", "movies_post_validation_error"),
                             Abort(400, MsgPhotoUrlText)>>)
                /\ Respond(t, 400, MsgPhotoUrlText, <<>>)
           ELSE /\ Emit(t, <<Log("info", "movies_post_start")>>)
                /\ pc' = [pc EXCEPT ![t] = "gw_check1"]
                /\ resp' = resp
    /\ kind' = [kind EXCEPT ![t] = "post"]
    /\ UNCHANGED <<gwVars, supabase, gwErr, err_text, sent, got, stored>>

\* _insert(payload) raised: the remote call raised, or it returned no rows
\* and blp.abort(500, ...) raised inside _insert
InsertRaised(o) == o.raises \/ o.data = <<>>

\* str(exc) of what _insert raised
InsertErrText(o) == IF o.raises THEN o.msg ELSE AbortText

\* mutant of InsertTrace: the zero-row abort is not logged
InsertTraceNoLog(o) ==
    <<Call("insert")>> \o
    (IF ~o.raises /\ o.data = <<>> THEN <<Abort(500, MsgNoData)>> ELSE <<>>)

\* what _insert does under outcome o, as trace events
InsertTrace(o) ==
    <<Call("insert")>> \o
    (IF ~o.raises /\ o.data = <<>>
     THEN <<Log("error", "movies_post_insert_no_data"), Abort(500, MsgNoData)>>
     ELSE <<>>)

\* the remote call of _insert(p) under outcome o
InsertCall(t, p, o) ==
    /\ sent' = [sent EXCEPT ![t] = Append(@, p)]
    /\ got' = [got EXCEPT ![t] = Append(@, [raised |-> o.raises, present |-> TRUE,
                                            data |-> o.data])]
    /\ stored' = [stored EXCEPT ![t] = @ + o.made]

\* the first attempt and its except branch up to the retry decision
PostInsert(t, o) ==
    /\ pc[t] = "post_insert"
    /\ InsertCall(t, payload[t], o)
    /\ IF ~InsertRaised(o)
           THEN /\ Emit(t, InsertTrace(o) \o <<Log("info", "movies_post_success")>>)
                /\ Respond(t, 201, "", <<o.data[1]>>)
                /\ err_text' = err_text
           ELSE /\ err_text' = [err_text EXCEPT ![t] = <<InsertErrText(o)>>]
                /\ IF ShouldRetry(payload[t], InsertErrText(o))
                   THEN /\ Emit(t, InsertTrace(o) \o
                                   <<Log("exception", "Failed to insert movie into Supabase"),
                                     Log("warning", "movies_post_insert_error")>>)
                        /\ pc' = [pc EXCEPT ![t] = "post_retry"]
                        /\ resp' = resp
                   ELSE /\ Emit(t, InsertTrace(o) \o
                                   <<Log("exception", "Failed to insert movie into Supabase"),
                                     Log("warning", "movies_post_insert_error"),
                                     Abort(500, MsgCreateFailed)>>)
                        /\ Respond(t, 500, MsgCreateFailed, <<>>)
    /\ UNCHANGED <<gwVars, kind, payload, supabase, gwErr>>

\* the retry without photo_url and its except branch
PostRetry(t, o) ==
    /\ pc[t] = "post_retry"
    /\ InsertCall(t, SafePayload(payload[t]), o)
    /\ IF ~InsertRaised(o)
           THEN /\ Emit(t, InsertTrace(o) \o
                           <<Log("info", "movies_post_success_without_photo_url")>>)
                /\ Respond(t, 201, "", <<o.data[1]>>)
           ELSE /\ Emit(t, InsertTrace(o) \o
                           <<Log("exception", "Retry insert without photo_url failed"),
                             Abort(500, MsgCreateFailed)>>)
                /\ Respond(t, 500, MsgCreateFailed, <<>>)
    /\ UNCHANGED <<gwVars, kind, payload, supabase, gwErr, err_text>>

\* ----------------------------------------------------------- get_supabase
\* the unlocked test "if _client is None"
GwCheck1(t) ==
    /\ pc[t] = "gw_check1"
    /\ pc' = [pc EXCEPT ![t] = IF client = 0 THEN "gw_acquire" ELSE "gw_return"]
    /\ UNCHANGED <<gwVars, reqVars>>

\* "with _client_lock:" entered
GwAcquire(t) ==
    /\ pc[t] = "gw_acquire"
    /\ lock = 0
    /\ lock' = t
    /\ pc' = [pc EXCEPT ![t] = "gw_check2"]
    /\ UNCHANGED <<hasUrl, hasKey, client, created, ctorFailed, reqVars>>

\* mutant of GwCheck2: no second test under the lock
GwCheck2NoTest(t) ==
    /\ pc[t] = "gw_check2"
    /\ pc' = [pc EXCEPT ![t] = "gw_create"]
    /\ UNCHANGED <<gwVars, reqVars>>

\* the test "if _client is None" under the lock
GwCheck2(t) ==
    /\ pc[t] = "gw_check2"
    /\ pc' = [pc EXCEPT ![t] = IF client = 0 THEN "gw_create" ELSE "gw_release"]
    /\ UNCHANGED <<gwVars, reqVars>>

\* _client = _create_client(): the configuration test, then create_client
GwCreate(t) ==
    /\ pc[t] = "gw_create"
    /\ pc' = [pc EXCEPT ![t] = "gw_release"]
    /\ IF ConfigMissing(hasUrl, hasKey)
       THEN /\ gwErr' = [gwErr EXCEPT ![t] = MissingMessage(hasUrl, hasKey)]
            /\ Emit(t, <<Log("info", "supabase_create_client_attempt"),
                         Log("error", "supabase_missing_configuration")>>)
            /\ UNCHANGED <<client, created, ctorFailed>>
       ELSE \/ /\ created' = created + 1
               /\ client' = created + 1
               /\ Emit(t, <<Log("info", "supabase_create_client_attempt"),
                            Call("create_client"),
                            Log("info", "supabase_client_initialized")>>)
               /\ UNCHANGED <<gwErr, ctorFailed>>
            \/ /\ ctorFailed < MaxCtorFailures
               /\ ctorFailed' = ctorFailed + 1
               /\ gwErr' = [gwErr EXCEPT ![t] = MsgInitFailed]
               /\ Emit(t, <<Log("info", "supabase_create_client_attempt"),
                            Call("create_client"),
                            Log("exception", "Supabase client creation failed")>>)
               /\ UNCHANGED <<client, created>>
    /\ UNCHANGED <<hasUrl, hasKey, lock, kind, payload, supabase, err_text, sent, got,
                   stored, resp>>

\* the "except RuntimeError" branch of the handler that called get_supabase
InitErrorEvent(k) ==
    IF k = "get" THEN "movies_get_supabase_init_error"
    ELSE "movies_post_supabase_init_error"

\* mutant of GwRelease: the lock is released on the normal path only
GwReleaseLeakOnError(t) ==
    /\ pc[t] = "gw_release"
    /\ IF gwErr[t] # ""
       THEN /\ Emit(t, <<Log("error", InitErrorEvent(kind[t])), Abort(500, gwErr[t])>>)
            /\ Respond(t, 500, gwErr[t], <<>>)
            /\ lock' = lock
       ELSE /\ pc' = [pc EXCEPT ![t] = "gw_return"]
            /\ lock' = 0
            /\ UNCHANGED <<trace, resp>>
    /\ UNCHANGED <<hasUrl, hasKey, client, created, ctorFailed, kind, payload, supabase,
                   gwErr, err_text, sent, got, stored>>

\* the with block is left: the lock is released; a RuntimeError in flight
\* reaches the handler, which logs it and aborts with 500
GwRelease(t) ==
    /\ pc[t] = "gw_release"
    /\ lock' = 0
    /\ IF gwErr[t] # ""
       THEN /\ Emit(t, <<Log("error", InitErrorEvent(kind[t])), Abort(500, gwErr[t])>>)
            /\ Respond(t, 500, gwErr[t], <<>>)
       ELSE /\ pc' = [pc EXCEPT ![t] = "gw_return"]
            /\ UNCHANGED <<trace, resp>>
    /\ UNCHANGED <<hasUrl, hasKey, client, created, ctorFailed, kind, payload, supabase,
                   gwErr, err_text, sent, got, stored>>

\* "return _client", and the handler going on to its storage call
GwReturn(t) ==
    /\ pc[t] = "gw_return"
    /\ supabase' = [supabase EXCEPT ![t] = client]
    /\ pc' = [pc EXCEPT ![t] = IF kind[t] = "get" THEN "get_select" ELSE "post_insert"]
    /\ UNCHANGED <<gwVars, kind, payload, gwErr, err_text, sent, got, stored, trace, resp>>

\* the response is sent and the thread takes the next request
Finish(t) ==
    /\ pc[t] = "done"
    /\ pc' = [pc EXCEPT ![t] = "idle"]
    /\ kind' = [kind EXCEPT ![t] = "none"]
    /\ payload' = [payload EXCEPT ![t] = NoPayload]
    /\ supabase' = [supabase EXCEPT ![t] = 0]
    /\ gwErr' = [gwErr EXCEPT ![t] = ""]
    /\ err_text' = [err_text EXCEPT ![t] = <<>>]
    /\ sent' = [sent EXCEPT ![t] = <<>>]
    /\ got' = [got EXCEPT ![t] = <<>>]
    /\ stored' = [stored EXCEPT ![t] = 0]
    /\ trace' = [trace EXCEPT ![t] = <<>>]
    /\ resp' = [resp EXCEPT ![t] = NoResp]
    /\ UNCHANGED gwVars

\* The requests and remote answers of the concurrent specification: one
\* body per branch of post(), one answer per branch of the storage calls.
FewPayloads ==
    { [title |-> VStr(T_Dune), photo_url |-> VStr(T_Url)],
      [title |-> VStr(T_Blank)],
      [title |-> VStr(<<>>)] }

FewInsertOutcomes(p) ==
    { o \in InsertOutcomes(p) :
        IF o.raises THEN o.msg = <<"U","n","d","e","f","i","n","e","d">>
        ELSE o.data # <<>> }

FewSelectOutcomes == { o \in SelectOutcomes : o.raises \/ ~o.present }

\* the steps of get_supabase
GwStep(t) ==
    \/ GwCheck1(t)
    \/ GwAcquire(t)
    \/ GwCheck2(t)
    \/ GwCreate(t)
    \/ GwRelease(t)
    \/ GwReturn(t)

\* One worker thread (the first) serving requests one after the other, with
\* every request body and every remote answer.
Worker == CHOOSE t \in Threads : \A u \in Threads : t <= u

Next ==
    \/ GetStart(Worker)
    \/ \E o \in SelectOutcomes : GetSelect(Worker, o)
    \/ \E p \in RawPayloads : PostSchemaReject(Worker, p)
    \/ \E p \in RawPayloads : PostStart(Worker, p)
    \/ \E o \in InsertOutcomes(payload[Worker]) : PostInsert(Worker, o)
    \/ \E o \in InsertOutcomes(SafePayload(payload[Worker])) : PostRetry(Worker, o)
    \/ GwStep(Worker)
    \/ Finish(Worker)

Spec == Init /\ [][Next]_vars

\* NThreads request threads running concurrently.
ThreadStep(t) ==
    \/ GetStart(t)
    \/ \E o \in FewSelectOutcomes : GetSelect(t, o)
    \/ \E p \in FewPayloads : PostSchemaReject(t, p)
    \/ \E p \in FewPayloads : PostStart(t, p)
    \/ \E o \in FewInsertOutcomes(payload[t]) : PostInsert(t, o)
    \/ \E o \in FewInsertOutcomes(SafePayload(payload[t])) : PostRetry(t, o)
    \/ GwStep(t)
    \/ Finish(t)

NextThreads == \E t \in Threads : ThreadStep(t)

SpecThreads == Init /\ [][NextThreads]_vars

\* A thread inside get_supabase that can take a step eventually takes one,
\* and a thread waiting for _client_lock gets it if the lock is free again
\* and again (the lock does not starve a waiter).
FairSpecThreads ==
    /\ SpecThreads
    /\ \A t \in Threads : WF_vars(GwStep(t)) /\ SF_vars(GwAcquire(t))

\* ================================================================ claims
\* The notions of the claims, stated apart from the definitions above.
IsBlank(s) == \A i \in 1..Len(s) : s[i] \in {" ", "\t", "\n", "\r"}

ClaimSubstrings ==
    { <<"c","o","l","u","m","n">>,
      <<"u","n","k","n","o","w","n">>,
      <<"i","n","v","a","l","i","d"," ","i","n","p","u","t">>,
      <<"d","o","e","s"," ","n","o","t"," ","e","x","i","s","t">>,
      <<"u","n","d","e","f","i","n","e","d">> }

ClaimMatches(text) == \E s \in ClaimSubstrings : Contains(s, Lower(text))

HasPhotoUrl(t) == "photo_url" \in DOMAIN payload[t]

WithoutPhotoUrl(p, q) ==
    /\ DOMAIN q = DOMAIN p \ {"photo_url"}
    /\ \A k \in DOMAIN q : q[k] = p[k]

NumCalls(t, op) ==
    Cardinality({ i \in 1..Len(trace[t]) :
                    trace[t][i].what = "call" /\ trace[t][i].ev = op })

IsFailureLog(e) == e.what = "log" /\ e.lvl \in {"warning", "error", "exception"}

NumFailureLogs(t) ==
    Cardinality({ i \in 1..Len(trace[t]) : IsFailureLog(trace[t][i]) })

\* the i-th storage call returned at least one row
ReturnedRows(t, i) == ~got[t][i].raised /\ got[t][i].data # <<>>

\* the i-th storage call raised nothing and returned no row
ReturnedNoRows(t, i) == ~got[t][i].raised /\ got[t][i].data = <<>>

Done(t) == pc[t] = "done"
InGet(t) == kind[t] = "get"
InPost(t) == kind[t] = "post"

\* C1: when the first insert raised, the payload has the key photo_url and
\* the error text contains one of the five substrings (ignoring case), the
\* request cannot end without a second insert, whose payload is the original
\* one without photo_url; and when that insert returns a row the request
\* ends with 201 and that row.
C1_RetryWithoutPhotoUrl ==
    \A t \in Threads :
        (InPost(t) /\ err_text[t] # <<>> /\ HasPhotoUrl(t) /\ ClaimMatches(err_text[t][1]))
        => /\ pc[t] \in {"post_retry", "done"}
           /\ sent[t][1] = payload[t]
           /\ got[t][1].raised
           /\ Done(t) =>
                /\ Len(sent[t]) = 2
                /\ WithoutPhotoUrl(payload[t], sent[t][2])
                /\ ReturnedRows(t, 2) =>
                     /\ resp[t].status = 201
                     /\ resp[t].data = <<got[t][2].data[1]>>

\* C1 witness: a retry that succeeded, with another field (year) kept
C1_Witness ==
    \E t \in Threads :
        /\ Done(t) /\ Len(sent[t]) = 2 /\ resp[t].status = 201
        /\ "year" \in DOMAIN sent[t][2]
        /\ "photo_url" \notin DOMAIN resp[t].data[1].fields
        /\ Contains(<<"U","n","k","n","o","w","n">>, err_text[t][1])

C4_BoundedRetry ==
    \A t \in Threads :
        /\ NumCalls(t, "insert") = Len(sent[t])
        /\ Len(sent[t]) <= 2
        /\ Len(sent[t]) = 2 =>
             /\ got[t][1].raised
             /\ HasPhotoUrl(t)
             /\ err_text[t] # <<>> /\ ClaimMatches(err_text[t][1])
        /\ (Done(t) /\ InPost(t) /\ ~HasPhotoUrl(t) /\ Len(got[t]) >= 1 /\ got[t][1].raised) =>
             /\ Len(sent[t]) = 1
             /\ resp[t].status = 500 /\ resp[t].message = MsgCreateFailed
        /\ (Done(t) /\ Len(sent[t]) = 2 /\ ~ReturnedRows(t, 2)) =>
             resp[t].status = 500 /\ resp[t].message = MsgCreateFailed
        /\ NumCalls(t, "select") <= 1
        /\ InGet(t) => NumCalls(t, "insert") = 0 /\ Len(got[t]) = NumCalls(t, "select")
        /\ InPost(t) => NumCalls(t, "select") = 0

\* C4 witness: the retry itself raised and the request ended with 500
C4_Witness ==
    \E t \in Threads :
        /\ Done(t) /\ Len(sent[t]) = 2 /\ got[t][2].raised
        /\ resp[t].status = 500

\* C5 (as claimed): an insert that raises nothing but returns no row ends
\* the request with the failure "no data returned".
C5_NoDataReported ==
    \A t \in Threads :
        (Done(t) /\ InPost(t) /\ \E i \in 1..Len(got[t]) : ReturnedNoRows(t, i))
        => resp[t].status = 500 /\ resp[t].message = MsgNoData

\* C6 (as claimed): with both settings unset every finished list_movies or
\* create_movie invocation, whatever its payload, ends with the
\* configuration error.
C6_AnyPayloadConfigError ==
    (~hasUrl /\ ~hasKey) =>
        \A t \in Threads :
            (Done(t) /\ (InGet(t) \/ InPost(t)))
            => /\ resp[t].status = 500
               /\ resp[t].message = MissingMessage(FALSE, FALSE)

\* C6 (amended): with both settings unset, every finished list_movies
\* invocation and every finished create_movie invocation whose payload passes
\* validation ends with the configuration error; and no invocation at all
\* calls the client constructor, select or insert.
C6_ValidPayloadConfigError ==
    (~hasUrl /\ ~hasKey) =>
        /\ created = 0 /\ ctorFailed = 0 /\ client = 0
        /\ \A t \in Threads :
            /\ \A i \in 1..Len(trace[t]) : trace[t][i].what # "call"
            /\ sent[t] = <<>> /\ got[t] = <<>> /\ supabase[t] = 0
            /\ pc[t] \notin {"get_select", "post_insert", "post_retry", "gw_return"}
            /\ (Done(t) /\ (InGet(t) \/ (InPost(t) /\ ~IsBlank(payload[t].title.v))))
               => /\ resp[t].status = 500
                  /\ resp[t].message =
                       "Missing required Supabase configuration: SUPABASE_URL, SUPABASE_SERVICE_KEY"

\* C6 witness: a valid create_movie ended with the configuration error
C6_Witness ==
    \E t \in Threads :
        /\ ~hasUrl /\ ~hasKey
        /\ Done(t) /\ InPost(t) /\ HasPhotoUrl(t)
        /\ resp[t].status = 500

\* C7: a create_movie invocation that ends with 201 has stored exactly one
\* record, also when the 201 comes from the retry.
C7_CreatedExactlyOnce ==
    \A t \in Threads :
        (Done(t) /\ InPost(t) /\ resp[t].status = 201) => stored[t] = 1

\* C7 witness: a 201 that came from the retry
C7_Witness ==
    \E t \in Threads :
        /\ Done(t) /\ InPost(t) /\ resp[t].status = 201
        /\ Len(sent[t]) = 2 /\ stored[t] = 1

\* C8: a select that raises nothing and has a None payload ends list_movies
\* with 200 and the empty sequence; a select that raises ends it with 500
\* "Failed to fetch movies".
C8_NullPayloadIsEmptyList ==
    \A t \in Threads :
        (Done(t) /\ InGet(t) /\ Len(got[t]) = 1) =>
            /\ (~got[t][1].raised /\ ~got[t][1].present)
               => resp[t].status = 200 /\ resp[t].data = <<>>
            /\ got[t][1].raised
               => resp[t].status = 500 /\ resp[t].message = MsgFetchFailed

\* C8 witness: a None payload was answered with 200
C8_Witness ==
    \E t \in Threads :
        /\ Done(t) /\ InGet(t) /\ Len(got[t]) = 1
        /\ ~got[t][1].raised /\ ~got[t][1].present
        /\ resp[t].status = 200

\* C10 (as claimed): a failing invocation emits exactly one failure log entry.
C10_LoggedExactlyOnce ==
    \A t \in Threads :
        (Done(t) /\ resp[t].status \in {400, 500}) => NumFailureLogs(t) = 1

\* C10 (amended): a failing invocation emits at least one failure log entry,
\* and every abort, the final one included, comes right after a failure log
\* entry; the failing invocation's trace ends with the abort that makes the
\* response.
C10_LoggedBeforeAbort ==
    \A t \in Threads :
        /\ \A i \in 1..Len(trace[t]) :
             trace[t][i].what = "abort" => i > 1 /\ IsFailureLog(trace[t][i - 1])
        /\ (Done(t) /\ resp[t].status \in {400, 500}) =>
             /\ NumFailureLogs(t) >= 1
             /\ trace[t][Len(trace[t])].what = "abort"
             /\ trace[t][Len(trace[t])].code = resp[t].status
             /\ trace[t][Len(trace[t])].ev = resp[t].message

\* C10 witness: a zero-row first insert: three failure log entries, two aborts
C10_Witness ==
    \E t \in Threads :
        /\ Done(t) /\ resp[t].status = 500
        /\ Len(got[t]) = 1 /\ ReturnedNoRows(t, 1)
        /\ NumFailureLogs(t) = 3

\* ------------------------------------------------------------ gateway
GwPcs == {"gw_check1", "gw_acquire", "gw_check2", "gw_create", "gw_release", "gw_return"}
InWithBlock == {"gw_check2", "gw_create", "gw_release"}

\* C2, state part: at most one Client is ever constructed, without a failed
\* construction the constructor is called at most once, and every handle a
\* caller received is that one instance, the value of _client.
C2_OneHandle ==
    /\ created <= 1
    /\ client \in {0, created}
    /\ \A t \in Threads :
        /\ supabase[t] # 0 => (supabase[t] = client /\ created = 1)
        /\ NumCalls(t, "create_client") <= 1
    /\ ctorFailed = 0 =>
         Cardinality({ t \in Threads : NumCalls(t, "create_client") = 1 }) <= 1

\* C2, step part: once _client is set no step changes it or constructs again.
C2_NoReconstruction ==
    client # 0 => (client' = client /\ created' = created /\ ctorFailed' = ctorFailed)

\* C2: concurrent first calls construct once and all callers, also later
\* ones, receive the same instance.
C2_SingleConstruction == [](C2_OneHandle) /\ [][C2_NoReconstruction]_vars

\* C2 witness: a caller holds the handle while another, which passed the
\* unlocked test before the handle existed, leaves the with block without
\* having constructed.
C2_Witness ==
    \E t, u \in Threads :
        /\ t # u
        /\ client # 0 /\ supabase[t] = client
        /\ pc[u] = "gw_release" /\ gwErr[u] = ""
        /\ NumCalls(u, "create_client") = 0

\* C9, state part: the lock is held only by a thread inside the with block.
C9_LockOnlyInWithBlock == lock # 0 => pc[lock] \in InWithBlock

\* C9, step part: a call that fails leaves the lock free and _client unset.
C9_FailureReleases ==
    \A t \in Threads :
        (pc[t] = "gw_release" /\ gwErr[t] # "" /\ pc'[t] # "gw_release")
        => /\ lock' = 0
           /\ client' = 0
           /\ pc'[t] = "done"
           /\ resp'[t].status = 500

\* C9: the lock is always released, also when construction fails, and every
\* get_supabase call eventually returns or fails.
C9_LockAlwaysReleased ==
    /\ [](C9_LockOnlyInWithBlock)
    /\ [][C9_FailureReleases]_vars
    /\ \A t \in Threads : (pc[t] \in GwPcs) ~> (pc[t] \notin GwPcs)

\* C9 witness: a call failed in the constructor, the lock is free again and
\* another call obtained a handle.
C9_Witness ==
    \E t, u \in Threads :
        /\ ctorFailed > 0
        /\ supabase[t] # 0
        /\ lock = 0
        /\ pc[u] = "done" /\ resp[u].message = MsgInitFailed
====
